---- MODULE Spec2Model ----
(***************************************************************************)
(* Scale configuration model of bqplot/scales.py.                          *)
(*                                                                         *)
(* Every scale class is a Widget whose attributes are traitlets            *)
(* declarations.  The model keeps, per class, the table of declarations   *)
(* exactly as written in the source (trait type, default value,           *)
(* allow_none flag, sync flag), resolves inheritance the way Python       *)
(* resolves class attributes, and gives the three operations of the       *)
(* configuration layer their traitlets meaning:                           *)
(*   construct(V, P)  = V(P as keywords)  keyword construction            *)
(*   update(c, f, v)  = setattr(c, f, v)  attribute assignment            *)
(*   serialize(c)     = c.get_state()     every sync=True trait           *)
(***************************************************************************)
EXTENDS Integers, Sequences, FiniteSets, TLC

VARIABLES
    phase,      \* "none": nothing constructed, "failed": construct raised,
                \* "live": a configuration object exists
    variant,    \* class named in the construct call
    cfg,        \* trait name -> current (validated) value
    attrs,      \* plain instance attributes that are not traits
    dirty,      \* a synchronized trait changed and was not yet propagated
    nupd,       \* number of update calls made on the object
    wire,       \* last state mapping sent to the view (serialize)
    copy,       \* object rebuilt from the wire mapping
    params,     \* keywords of the construct call
    last        \* the last call and its outcome

vars == <<phase, variant, cfg, attrs, dirty, nupd, wire, copy, params, last>>

MaxUpdates == 1

----------------------------------------------------------------------------
(* Values.  k is the Python kind of the value, n its numeric payload,      *)
(* s its textual / sequence payload.                                       *)

Val(k, n, s) == [k |-> k, n |-> n, s |-> s]
None     == Val("none", 0, <<>>)
FloatV(n) == Val("float", n, <<>>)
IntV(n)  == Val("int", n, <<>>)
Bool(b)  == Val("bool", IF b THEN 1 ELSE 0, <<>>)
Txt(t)   == Val("text", 0, <<t>>)
Dt(n)    == Val("date", n, <<>>)
Lst(q)   == Val("list", 0, q)
Cls(c)   == Val("class", 0, <<c>>)

NoMap == [x \in {} |-> None]

----------------------------------------------------------------------------
(* Trait declarations.                                                     *)

Trait(type, default, allow_none, sync) ==
    [type |-> type, default |-> default, allow_none |-> allow_none, sync |-> sync]

Classes == {"Scale", "LinearScale", "LogScale", "DateScale", "OrdinalScale",
            "ColorScale", "DateColorScale", "OrdinalColorScale"}

Variants == Classes \ {"Scale"}

Parent(cls) ==
    CASE cls \in {"LinearScale", "LogScale", "DateScale", "OrdinalScale", "ColorScale"}
             -> "Scale"
      [] cls \in {"DateColorScale", "OrdinalColorScale"} -> "ColorScale"
      [] OTHER -> "Widget"

ScaleTraits ==
    [ domain_class  |-> Trait("Type", Cls("Float"), FALSE, FALSE),
      reverse       |-> Trait("Bool", Bool(FALSE), FALSE, TRUE),
      allow_padding |-> Trait("Bool", Bool(TRUE), FALSE, TRUE),
      _view_name    |-> Trait("Unicode", Txt("Scale"), FALSE, TRUE),
      _model_name   |-> Trait("Unicode", Txt("ScaleModel"), FALSE, TRUE) ]

LinearScaleTraits ==
    [ min              |-> Trait("Float", None, TRUE, TRUE),
      max              |-> Trait("Float", None, TRUE, TRUE),
      scale_range_type |-> Trait("Unicode", Txt("numerical"), FALSE, TRUE),
      _view_name       |-> Trait("Unicode", Txt("LinearScale"), FALSE, TRUE),
      _model_name      |-> Trait("Unicode", Txt("LinearScaleModel"), FALSE, TRUE) ]

LogScaleTraits ==
    [ min              |-> Trait("Float", None, TRUE, TRUE),
      max              |-> Trait("Float", None, TRUE, TRUE),
      scale_range_type |-> Trait("Unicode", Txt("numerical"), FALSE, TRUE),
      _view_name       |-> Trait("Unicode", Txt("LogScale"), FALSE, TRUE),
      _model_name      |-> Trait("Unicode", Txt("LogScaleModel"), FALSE, TRUE) ]

DateScaleTraits ==
    [ domain_class     |-> Trait("Type", Cls("Date"), FALSE, FALSE),
      min              |-> Trait("Date", None, TRUE, TRUE),
      max              |-> Trait("Date", None, TRUE, TRUE),
      date_format      |-> Trait("Unicode", Txt(""), FALSE, TRUE),
      scale_range_type |-> Trait("Unicode", Txt("numerical"), FALSE, TRUE),
      _view_name       |-> Trait("Unicode", Txt("DateScale"), FALSE, TRUE),
      _model_name      |-> Trait("Unicode", Txt("DateScaleModel"), FALSE, TRUE) ]

OrdinalScaleTraits ==
    [ domain           |-> Trait("List", Lst(<<>>), FALSE, TRUE),
      scale_range_type |-> Trait("Unicode", Txt("numerical"), FALSE, TRUE),
      _view_name       |-> Trait("Unicode", Txt("OrdinalScale"), FALSE, TRUE),
      _model_name      |-> Trait("Unicode", Txt("OrdinalScaleModel"), FALSE, TRUE) ]

ColorScaleTraits ==
    [ scale_type       |-> Trait("Enum", Txt("linear"), FALSE, TRUE),
      colors           |-> Trait("List", Lst(<<>>), FALSE, TRUE),
      min              |-> Trait("Float", None, TRUE, TRUE),
      max              |-> Trait("Float", None, TRUE, TRUE),
      mid              |-> Trait("Float", None, TRUE, TRUE),
      scheme           |-> Trait("Unicode", Txt("RdYlGn"), FALSE, TRUE),
      scale_range_type |-> Trait("Unicode", Txt("Color"), FALSE, TRUE),
      _view_name       |-> Trait("Unicode", Txt("LinearColorScale"), FALSE, TRUE),
      _model_name      |-> Trait("Unicode", Txt("LinearColorScaleModel"), FALSE, TRUE) ]

DateColorScaleTraits ==
    [ min              |-> Trait("Date", None, TRUE, TRUE),
      max              |-> Trait("Date", None, TRUE, TRUE),
      mid              |-> Trait("Unicode", None, TRUE, TRUE),
      date_format      |-> Trait("Unicode", Txt(""), FALSE, TRUE),
      scale_range_type |-> Trait("Unicode", Txt("Color"), FALSE, TRUE),
      _view_name       |-> Trait("Unicode", Txt("DateColorScale"), FALSE, TRUE),
      _model_name      |-> Trait("Unicode", Txt("DateColorScaleModel"), FALSE, TRUE) ]

OrdinalColorScaleTraits ==
    [ domain           |-> Trait("List", Lst(<<>>), FALSE, TRUE),
      scale_range_type |-> Trait("Unicode", Txt("Color"), FALSE, TRUE),
      _view_name       |-> Trait("Unicode", Txt("OrdinalColorScale"), FALSE, TRUE),
      _model_name      |-> Trait("Unicode", Txt("OrdinalScaleModel"), FALSE, TRUE) ]

\* The declarations written in the body of one class.
Own(cls) ==
    CASE cls = "Scale"             -> ScaleTraits
      [] cls = "LinearScale"       -> LinearScaleTraits
      [] cls = "LogScale"          -> LogScaleTraits
      [] cls = "DateScale"         -> DateScaleTraits
      [] cls = "OrdinalScale"      -> OrdinalScaleTraits
      [] cls = "ColorScale"        -> ColorScaleTraits
      [] cls = "DateColorScale"    -> DateColorScaleTraits
      [] cls = "OrdinalColorScale" -> OrdinalColorScaleTraits
      [] OTHER                     -> NoMap

\* Class attribute lookup: a declaration of the class hides the one of the
\* same name in its base class.
RECURSIVE Resolve(_)
Resolve(cls) ==
    IF cls \notin Classes THEN NoMap
    ELSE LET own  == Own(cls)
             base == Resolve(Parent(cls))
         IN  [f \in DOMAIN own \cup DOMAIN base |->
                 IF f \in DOMAIN own THEN own[f] ELSE base[f]]

ClassTraits == [cls \in Classes |-> Resolve(cls)]

Traits(cls) == IF cls \in Classes THEN ClassTraits[cls] ELSE NoMap

TraitNames(cls) == DOMAIN Traits(cls)

\* Variant of Synced in which the colors declaration lacks sync=True.
SyncedButColors(cls, f) == Traits(cls)[f].sync /\ f # "colors"

\* Trait metadata sync=True: the trait belongs to the widget's keys.
Synced(cls, f) == Traits(cls)[f].sync

Keys(cls) == {f \in TraitNames(cls) : Synced(cls, f)}

----------------------------------------------------------------------------
(* Validation of one assigned value by the trait type of the declaration.  *)

EnumValues == {Txt("linear")}

IsSubclass(c, klass) == c = klass \/ (c = "CFloat" /\ klass = "Float")

Accept(v) == [ok |-> TRUE, val |-> v]
Reject    == [ok |-> FALSE, val |-> None]

\* Variant of FloatValidate that casts instead of checking (CFloat): text
\* is parsed to a number.
FloatValidateCast(v) ==
    IF v.k = "float" THEN Accept(v)
    ELSE IF v.k \in {"int", "bool"} THEN Accept(FloatV(v.n))
    ELSE IF v.k = "text" THEN Accept(FloatV(Len(v.s[1])))
    ELSE Reject

\* Float.validate: a float is kept, an int (a bool is one) becomes the float
\* of the same number, anything else is an error.
FloatValidate(v) ==
    IF v.k = "float" THEN Accept(v)
    ELSE IF v.k \in {"int", "bool"} THEN Accept(FloatV(v.n))
    ELSE Reject

BoolValidate(v) == IF v.k = "bool" THEN Accept(v) ELSE Reject

UnicodeValidate(v) == IF v.k = "text" THEN Accept(v) ELSE Reject

NoRepeat(q) == \A i, j \in 1..Len(q) : q[i] = q[j] => i = j

\* Variant of ListValidate that rejects a list holding a value twice.
ListValidateUnique(v) == IF v.k = "list" /\ NoRepeat(v.s) THEN Accept(v) ELSE Reject

\* List(): any list, elements unchecked.
ListValidate(v) == IF v.k = "list" THEN Accept(v) ELSE Reject

EnumValidate(v) == IF v \in EnumValues THEN Accept(v) ELSE Reject

TypeValidate(t, v) ==
    IF v.k = "class" /\ IsSubclass(v.s[1], t.default.s[1]) THEN Accept(v) ELSE Reject

\* Date.validate (bqplot/traits.py): a date is kept, anything else is an error.
DateValidate(v) == IF v.k = "date" THEN Accept(v) ELSE Reject

\* TraitType._validate: None passes when the declaration says
\* allow_none=True (a declaration that does not say it takes the default,
\* False); every other value goes to the validator of the trait type.
Validate(t, v) ==
    IF v = None /\ t.allow_none THEN Accept(v)
    ELSE CASE t.type = "Float"   -> FloatValidate(v)
           [] t.type = "Bool"    -> BoolValidate(v)
           [] t.type = "Unicode" -> UnicodeValidate(v)
           [] t.type = "List"    -> ListValidate(v)
           [] t.type = "Enum"    -> EnumValidate(v)
           [] t.type = "Type"    -> TypeValidate(t, v)
           [] t.type = "Date"    -> DateValidate(v)
           [] OTHER              -> Reject

----------------------------------------------------------------------------
(* Operations on one configuration object.                                 *)

\* The serializer the Date trait attaches to its values.  The Date trait is
\* defined in bqplot/traits.py; the mapping carries the date itself.
DateToJson(v) == v

ToJson(t, v) == IF t.type = "Date" THEN DateToJson(v) ELSE v

\* Variant of Serialize that leaves out the traits whose value is None.
SerializeOmitNone(cls, c) ==
    [f \in {g \in Keys(cls) : c[g] # None} |-> ToJson(Traits(cls)[f], c[f])]

\* get_state(): every synchronized trait with its current value, through
\* the serializer of its trait.
Serialize(cls, c) == [f \in Keys(cls) |-> ToJson(Traits(cls)[f], c[f])]

Outcome(c, a, d, res) == [cfg |-> c, attrs |-> a, dirty |-> d, result |-> res]

\* Assignment to a declared trait: the value is validated first and stored
\* only when valid; the change is notified, and sent to the view when the
\* trait is synchronized, only if the stored value differs from the old one.
SetTrait(cls, c, a, d, f, v) ==
    LET t == Traits(cls)[f]
        r == Validate(t, v)
    IN  IF r.ok
        THEN Outcome([c EXCEPT ![f] = r.val], a,
                     d \/ (Synced(cls, f) /\ c[f] # r.val), "ok")
        ELSE Outcome(c, a, d, "InvalidParameterKind")

\* Assignment to a name that is no trait: an ordinary instance attribute.
SetPlain(c, a, d, f, v) ==
    Outcome(c, [g \in DOMAIN a \cup {f} |-> IF g = f THEN v ELSE a[g]], d, "ok")

\* Variant of SetAttr that refuses a name the class does not declare.
SetAttrDeclaredOnly(cls, c, a, d, f, v) ==
    IF f \in TraitNames(cls) THEN SetTrait(cls, c, a, d, f, v)
    ELSE Outcome(c, a, d, "UnknownField")

\* Variant of SetAttr that notifies every successful trait assignment.
SetAttrAlwaysNotify(cls, c, a, d, f, v) ==
    IF f \in TraitNames(cls)
    THEN LET r == SetTrait(cls, c, a, d, f, v)
         IN  [r EXCEPT !.dirty = d \/ r.result = "ok"]
    ELSE SetPlain(c, a, d, f, v)

Inverted(c) ==
    /\ {"min", "max"} \subseteq DOMAIN c
    /\ c["min"] # None /\ c["max"] # None
    /\ c["min"].n > c["max"].n

\* Variant of SetAttr that validates the range ordering.
SetAttrOrdered(cls, c, a, d, f, v) ==
    IF f \in TraitNames(cls)
    THEN LET r == SetTrait(cls, c, a, d, f, v)
         IN  IF r.result = "ok" /\ Inverted(r.cfg)
             THEN Outcome(c, a, d, "InvalidParameterKind")
             ELSE r
    ELSE SetPlain(c, a, d, f, v)

\* setattr(obj, f, v) on an object of class cls with trait values c, plain
\* attributes a and pending-change flag d.
SetAttr(cls, c, a, d, f, v) ==
    IF f \in TraitNames(cls) THEN SetTrait(cls, c, a, d, f, v)
    ELSE SetPlain(c, a, d, f, v)

\* cls(P as keywords): every keyword is assigned with setattr on the fresh object; one
\* rejected keyword aborts the construction.
New(cls, P) ==
    LET declared == DOMAIN P \cap TraitNames(cls)
        extra    == DOMAIN P \ TraitNames(cls)
        ok       == \A f \in declared : Validate(Traits(cls)[f], P[f]).ok
    IN  [ok    |-> ok,
         cfg   |-> [f \in TraitNames(cls) |->
                       IF f \in declared /\ ok
                       THEN Validate(Traits(cls)[f], P[f]).val
                       ELSE Traits(cls)[f].default],
         attrs |-> [g \in extra |-> P[g]]]

----------------------------------------------------------------------------
(* Inputs.                                                                 *)

Values ==
    { None, FloatV(1), IntV(2), Bool(TRUE), Txt("linear"), Txt("x"),
      Dt(1), Lst(<<"a", "b">>), Lst(<<"a", "b", "a">>), Cls("CFloat") }

\* Names assigned by update besides the traits of the object's own class:
\* "bogus" is declared by no class, "domain" only by the ordinal ones.
OtherNames == {"bogus", "domain"}

ParamSets ==
    { NoMap,
      [min |-> IntV(0), max |-> IntV(1)],
      [min |-> FloatV(2), max |-> FloatV(1)],
      [min |-> Dt(2), max |-> Dt(3)],
      [min |-> Txt("x")],
      [mid |-> Txt("x")],
      [reverse |-> Bool(TRUE), allow_padding |-> Bool(FALSE)],
      [reverse |-> IntV(1)],
      [colors |-> Lst(<<"red", "green">>), scheme |-> Txt("Viridis")],
      [scale_type |-> Txt("log")],
      [domain |-> Lst(<<"low", "mid", "high">>)],
      [domain |-> Lst(<<"a", "b", "a">>)],
      [domain_class |-> Cls("CFloat")],
      [scale_range_type |-> Txt("x")],
      [bogus |-> IntV(1)] }

NoCopy == [ok |-> FALSE, cfg |-> NoMap, attrs |-> NoMap]

Call(op, f, res) == [op |-> op, field |-> f, result |-> res]

----------------------------------------------------------------------------
(* The state machine.                                                      *)

Init ==
    /\ phase = "none"
    /\ variant = "none"
    /\ cfg = NoMap
    /\ attrs = NoMap
    /\ dirty = FALSE
    /\ nupd = 0
    /\ wire = NoMap
    /\ copy = NoCopy
    /\ params = NoMap
    /\ last = Call("none", "", "ok")

\* construct(V, P)
Construct(V, P) ==
    /\ phase \in {"none", "failed"}
    /\ LET o == New(V, P)
       IN  /\ phase' = IF o.ok THEN "live" ELSE "failed"
           /\ cfg' = IF o.ok THEN o.cfg ELSE NoMap
           /\ attrs' = IF o.ok THEN o.attrs ELSE NoMap
           /\ last' = Call("construct", "",
                           IF o.ok THEN "ok" ELSE "InvalidParameterKind")
    /\ variant' = V
    /\ params' = P
    /\ dirty' = FALSE
    /\ UNCHANGED <<nupd, wire, copy>>

\* update(config, f, v)
Update(f, v) ==
    /\ phase = "live"
    /\ nupd < MaxUpdates
    /\ LET r == SetAttr(variant, cfg, attrs, dirty, f, v)
       IN  /\ cfg' = r.cfg
           /\ attrs' = r.attrs
           /\ dirty' = r.dirty
           /\ last' = Call("update", f, r.result)
    /\ nupd' = nupd + 1
    /\ UNCHANGED <<phase, variant, wire, copy, params>>

\* serialize(config): the state mapping goes to the synchronization channel.
SendState ==
    /\ phase = "live"
    /\ wire' = Serialize(variant, cfg)
    /\ dirty' = FALSE
    /\ last' = Call("serialize", "", "ok")
    /\ UNCHANGED <<phase, variant, cfg, attrs, nupd, copy, params>>

\* construct(V, m) for the mapping m that serialize produced.
Reconstruct ==
    /\ phase = "live"
    /\ wire # NoMap
    /\ copy' = New(variant, wire)
    /\ last' = Call("reconstruct", "",
                    IF New(variant, wire).ok THEN "ok" ELSE "InvalidParameterKind")
    /\ UNCHANGED <<phase, variant, cfg, attrs, dirty, nupd, wire, params>>

Next ==
    \/ \E V \in Variants, P \in ParamSets : Construct(V, P)
    \/ \E f \in TraitNames(variant) \cup OtherNames, v \in Values : Update(f, v)
    \/ SendState

Spec == Init /\ [][Next]_vars

\* Construction, serialization and reconstruction from the serialized mapping.
NextRT ==
    \/ \E V \in Variants, P \in ParamSets : Construct(V, P)
    \/ SendState
    \/ Reconstruct

SpecRT == Init /\ [][NextRT]_vars

----------------------------------------------------------------------------
(* Properties.                                                             *)

IPK == "InvalidParameterKind"

\* The step is one update call.
IsUpdateStep == last'.op = "update" /\ nupd' = nupd + 1

NumericalFamily == {"LinearScale", "LogScale", "DateScale", "OrdinalScale"}
ColorFamily     == {"ColorScale", "DateColorScale", "OrdinalColorScale"}
OrdinalVariants == {"OrdinalScale", "OrdinalColorScale"}
DateVariants    == {"DateScale", "DateColorScale"}

\* C1 as stated: update with a name the variant does not declare fails with
\* UnknownField and adds nothing to the configuration.
C1_UnknownFieldFails ==
    (phase = "live" /\ last.op = "update" /\ last.field \notin TraitNames(variant))
        => (last.result = "UnknownField" /\ last.field \notin DOMAIN attrs)

\* C1 amended: update with a name the variant does not declare succeeds; the
\* name becomes a plain attribute of the object, outside the declared fields
\* and outside the serialized mapping, and every declared field and the
\* clean/dirty flag keep the value they had before the call.
C1_UndeclaredNameIsPlainAttribute ==
    [][(IsUpdateStep /\ last'.field \notin TraitNames(variant))
          => /\ last'.result = "ok"
             /\ cfg' = cfg
             /\ dirty' = dirty
             /\ DOMAIN cfg' = TraitNames(variant)
             /\ last'.field \in DOMAIN attrs'
             /\ last'.field \notin DOMAIN Serialize(variant, cfg')]_vars

C1_Witness ==
    /\ phase = "live" /\ last.op = "update" /\ last.field = "bogus"
    /\ last.result = "ok" /\ "bogus" \in DOMAIN attrs /\ ~dirty

NumericField(cls, f) ==
    \/ cls \in {"LinearScale", "LogScale"} /\ f \in {"min", "max"}
    \/ cls \in {"ColorScale", "OrdinalColorScale"} /\ f \in {"min", "max", "mid"}

\* The wrong-kind assignments C2 lists (None is "unset", not a value).
WrongKind(cls, f, v) ==
    \/ NumericField(cls, f) /\ v.k = "text"
    \/ f \in {"reverse", "allow_padding"} /\ v.k # "bool"
    \/ cls \in DateVariants /\ f \in {"min", "max"} /\ v.k \notin {"date", "none"}
    \/ cls \in ColorFamily /\ f = "scale_type" /\ v.k # "none" /\ v # Txt("linear")

C2_Calls ==
    /\ phase = "live" =>
          \A f \in TraitNames(variant), v \in Values :
              WrongKind(variant, f, v) =>
                  SetAttr(variant, cfg, attrs, dirty, f, v)
                      = Outcome(cfg, attrs, dirty, IPK)
    /\ (/\ phase # "none"
        /\ \E f \in DOMAIN params \cap TraitNames(variant) :
               WrongKind(variant, f, params[f]))
          => (phase = "failed" /\ last.result = IPK /\ cfg = NoMap)

\* C2: construct or update assigning a wrong-kind value to a declared field
\* fails with InvalidParameterKind, and an update that fails leaves the whole
\* configuration (fields, plain attributes, clean/dirty flag) as it was.
C2_WrongKindRejectedAtomically ==
    /\ []C2_Calls
    /\ [][(IsUpdateStep /\ last'.result # "ok")
             => /\ last'.result = IPK
                /\ cfg' = cfg /\ attrs' = attrs /\ dirty' = dirty
                /\ phase' = phase /\ variant' = variant]_vars

C2_Witness ==
    /\ phase = "live" /\ variant = "DateScale"
    /\ last.op = "update" /\ last.field = "min" /\ last.result = IPK

\* C3 as stated: scale_range_type always equals the tag of the variant's
\* family.
C3_RangeTypeReadOnly ==
    phase = "live" =>
        cfg["scale_range_type"] =
            Txt(IF variant \in NumericalFamily THEN "numerical" ELSE "Color")

\* C4 as stated: domain_class is the variant's own domain type (numeric,
\* date, or a categorical type that is neither) in every state.
C4_DomainClassFixed ==
    phase = "live" =>
        CASE variant \in {"LinearScale", "LogScale", "ColorScale"}
                 -> cfg["domain_class"] = Cls("Float")
          [] variant \in DateVariants
                 -> cfg["domain_class"] = Cls("Date")
          [] OTHER
                 -> cfg["domain_class"] \notin {Cls("Float"), Cls("Date")}

\* C5 as stated: the serialized mapping holds min, max and mid only when
\* they have a value.
C5_UnsetOmitted ==
    (phase = "live" /\ last.op = "serialize") =>
        \A f \in {"min", "max", "mid"} : f \in DOMAIN wire => wire[f] # None

CommonKeys == {"reverse", "allow_padding", "scale_range_type",
               "_view_name", "_model_name"}
ColorKeys  == {"scale_type", "colors", "min", "max", "mid", "scheme"}

ExpectedKeys(V) ==
    CommonKeys \cup
    CASE V \in {"LinearScale", "LogScale"} -> {"min", "max"}
      [] V = "DateScale"         -> {"min", "max", "date_format"}
      [] V = "OrdinalScale"      -> {"domain"}
      [] V = "ColorScale"        -> ColorKeys
      [] V = "DateColorScale"    -> ColorKeys \cup {"date_format"}
      [] V = "OrdinalColorScale" -> ColorKeys \cup {"domain"}

\* C5 amended: the serialized mapping holds every synchronized declared
\* field of the variant (the parameters, scale_range_type and the two kind
\* tags; never domain_class), each value that is not a date as it stands;
\* an unset min, max or mid is emitted with the null value, not omitted.
C5_SerializeAllSynced ==
    (phase = "live" /\ last.op = "serialize") =>
        /\ DOMAIN wire = ExpectedKeys(variant)
        /\ \A f \in DOMAIN wire : cfg[f].k # "date" => wire[f] = cfg[f]
        /\ (variant = "LinearScale" /\ nupd = 0
              /\ params = [min |-> IntV(0), max |-> IntV(1)])
              => wire = [ min |-> FloatV(0), max |-> FloatV(1),
                          reverse |-> Bool(FALSE), allow_padding |-> Bool(TRUE),
                          scale_range_type |-> Txt("numerical"),
                          _view_name |-> Txt("LinearScale"),
                          _model_name |-> Txt("LinearScaleModel") ]

C5_Witness ==
    /\ phase = "live" /\ last.op = "serialize" /\ variant = "ColorScale"
    /\ wire["colors"] = Lst(<<"red", "green">>) /\ wire["scheme"] = Txt("Viridis")
    /\ wire["min"] = None /\ wire["max"] = None /\ wire["mid"] = None

\* The parameters a caller may give to construct, per variant.
UserParams(V) == ExpectedKeys(V) \ {"scale_range_type", "_view_name", "_model_name"}

C7_DomainUnique ==
    (phase = "live" /\ variant \in OrdinalVariants) => NoRepeat(cfg["domain"].s)

\* C7 amended: construct and update accept any list as the domain of an
\* ordinal variant, a list with repeated values included, and store it as
\* given: same elements, same order, repetitions kept.
C7_DomainStoredAsGiven ==
    (phase = "live" /\ variant \in OrdinalVariants) =>
        /\ \A v \in Values :
              v.k = "list" =>
                  LET r == SetAttr(variant, cfg, attrs, dirty, "domain", v)
                  IN  r.result = "ok" /\ r.cfg["domain"] = v
        /\ (nupd = 0 /\ "domain" \in DOMAIN params) => cfg["domain"] = params["domain"]
        /\ (last.op = "update" /\ last.field = "domain" /\ last.result = "ok")
              => cfg["domain"] \in Values

C7_Witness ==
    /\ phase = "live" /\ variant = "OrdinalScale"
    /\ last.op = "update" /\ last.field = "domain" /\ last.result = "ok"
    /\ cfg["domain"] = Lst(<<"a", "b", "a">>)

\* C8 as stated: the view kind tag and the model kind tag a configuration
\* carries are those of no other variant.
C8_TagsIdentifyVariant ==
    phase = "live" =>
        \A V \in Variants \ {variant} :
            /\ Traits(V)["_view_name"].default # cfg["_view_name"]
            /\ Traits(V)["_model_name"].default # cfg["_model_name"]

\* C9 as stated: every successful update marks the configuration dirty.
C9_SuccessMarksDirty ==
    (phase = "live" /\ last.op = "update" /\ last.result = "ok") => dirty

\* The value a field holds after a successful assignment of v.
Stored(v, w) == w = v \/ (v.k \in {"int", "bool"} /\ w = FloatV(v.n))

C9_Calls ==
    phase = "live" =>
        \A f \in TraitNames(variant), v \in Values :
            LET r == SetAttr(variant, cfg, attrs, dirty, f, v)
            IN  r.result = "ok" => Stored(v, r.cfg[f])

\* C9 amended: a successful update of a declared field stores the given
\* value in that field (an int or bool given for a numeric field as the
\* float of the same number) and changes no other declared field; it marks
\* the configuration dirty exactly when the field is synchronized (every
\* declared field but domain_class) and the stored value differs from the
\* one before; an update of an undeclared name or a failed update changes
\* neither; the configuration becomes dirty only by a successful update.
C9_UpdateFrame ==
    /\ []C9_Calls
    /\ [][IsUpdateStep =>
            /\ DOMAIN cfg' = DOMAIN cfg
            /\ \A g \in DOMAIN cfg : g # last'.field => cfg'[g] = cfg[g]
            /\ last'.result # "ok" => cfg' = cfg
            /\ dirty' <=> \/ dirty
                          \/ /\ last'.result = "ok"
                             /\ last'.field \in DOMAIN cfg
                             /\ last'.field # "domain_class"
                             /\ cfg'[last'.field] # cfg[last'.field]]_vars
    /\ [][(~dirty /\ dirty') => (IsUpdateStep /\ last'.result = "ok")]_vars

C9_Witness ==
    /\ phase = "live" /\ last.op = "update" /\ last.field = "reverse"
    /\ last.result = "ok" /\ dirty /\ cfg["reverse"] = Bool(TRUE)

\* A value of the kind the variant's min and max take.
RangeKind(cls, v) ==
    IF cls \in DateVariants THEN v.k = "date" ELSE v.k \in {"float", "int"}

HasRange(cls) == cls \notin {"OrdinalScale"}

\* C10: construct and update accept every min and max of the right kind
\* whatever their order; min > max is reachable and serializes as given.
C10_RangeOrderNotValidated ==
    /\ (phase = "live" /\ HasRange(variant)) =>
          \A f \in {"min", "max"}, v \in Values :
              RangeKind(variant, v) =>
                  LET r == SetAttr(variant, cfg, attrs, dirty, f, v)
                  IN  /\ r.result = "ok"
                      /\ Stored(v, r.cfg[f])
                      /\ Serialize(variant, r.cfg)[f] = r.cfg[f]
    /\ (/\ phase # "none" /\ HasRange(variant)
        /\ DOMAIN params = {"min", "max"}
        /\ RangeKind(variant, params["min"]) /\ RangeKind(variant, params["max"]))
          => /\ phase = "live"
             /\ nupd = 0 => (Stored(params["min"], cfg["min"])
                               /\ Stored(params["max"], cfg["max"]))
    /\ (phase = "live" /\ last.op = "serialize" /\ HasRange(variant))
          => (wire["min"] = cfg["min"] /\ wire["max"] = cfg["max"])

C10_Witness ==
    /\ phase = "live" /\ variant = "LinearScale"
    /\ last.op = "update" /\ last.field = "min" /\ last.result = "ok"
    /\ cfg["min"] = FloatV(2) /\ cfg["max"] = FloatV(1)

====
